---------------------------- MODULE Spec2Model ----------------------------
(***************************************************************************)
(* Model of search_modules/law_firm_search.py: the counsel-attribution and *)
(* enrichment pipeline (search_law_firm_for_companies) and the per-company *)
(* counsel extractor (get_most_recent_lawyer_for_company).                 *)
(*                                                                         *)
(* A Python str is a tuple of one-character strings, a DataFrame is a      *)
(* sequence of row records that carry their index label in the field idx,  *)
(* a dict is a sequence of <<key, value>> pairs in insertion order.        *)
(***************************************************************************)
EXTENDS Integers, Sequences, FiniteSets, TLC

(***************************************************************************)
(* Bounds of the model.                                                    *)
(***************************************************************************)
\* most filing records search_paginated returns in one run
MaxResults == 2
\* most rows the stock-loan feed returns in one run
MaxFeed == 2
\* most filings get_company_filings returns beyond the 10 that are read
MaxExtraFilings == 1
\* most rows of the table the attribution phase is started on directly
MaxRows == 6
\* most firms extract_lawyers_by_regex finds in one filing
MaxFirmsPerFiling == 1

(***************************************************************************)
(* Program constants.                                                      *)
(***************************************************************************)
\* filings = filings[:10]
RecentFilings == 10
\* ThreadPoolExecutor(max_workers=5)
MaxWorkers == 5
\* completed % 10 == 0
ProgressEvery == 10
\* str(cik).zfill(10)
CikWidth == 10
\* the market-cap floor of the reference filter
MarketCapFloor == 500

(***************************************************************************)
(* Strings.                                                                *)
(***************************************************************************)
\* None; no str is equal to it
None == <<"None">>

UpperAlpha ==
  <<"A","B","C","D","E","F","G","H","I","J","K","L","M",
    "N","O","P","Q","R","S","T","U","V","W","X","Y","Z">>

LowerAlpha ==
  <<"a","b","c","d","e","f","g","h","i","j","k","l","m",
    "n","o","p","q","r","s","t","u","v","w","x","y","z">>

\* the characters in code-point order
AsciiOrder ==
  <<" ", "(", ")", "-", ".", "0","1","2","3","4","5","6","7","8","9">>
  \o UpperAlpha \o LowerAlpha

Ord(c) == CHOOSE i \in 1..Len(AsciiOrder) : AsciiOrder[i] = c

IsSpace(c) == c = " "

\* int(c) of a digit, and the digit of n
DigitVal(c) == Ord(c) - Ord("0")

DigitChar(n) == AsciiOrder[Ord("0") + n]

\* str.lower() and str.upper(), one character
LowerChar(c) ==
  IF \E i \in 1..26 : UpperAlpha[i] = c
  THEN LowerAlpha[CHOOSE i \in 1..26 : UpperAlpha[i] = c]
  ELSE c

UpperChar(c) ==
  IF \E i \in 1..26 : LowerAlpha[i] = c
  THEN UpperAlpha[CHOOSE i \in 1..26 : LowerAlpha[i] = c]
  ELSE c

Lower(s) == [i \in 1..Len(s) |-> LowerChar(s[i])]

Upper(s) == [i \in 1..Len(s) |-> UpperChar(s[i])]

\* str.strip()
RECURSIVE LStrip(_)
LStrip(s) == IF s # <<>> /\ IsSpace(Head(s)) THEN LStrip(Tail(s)) ELSE s

RECURSIVE RStrip(_)
RStrip(s) ==
  IF s # <<>> /\ IsSpace(s[Len(s)]) THEN RStrip(SubSeq(s, 1, Len(s) - 1)) ELSE s

Strip(s) == LStrip(RStrip(s))

\* s.startswith(p) and s.endswith(p)
StartsWith(s, p) == Len(p) <= Len(s) /\ SubSeq(s, 1, Len(p)) = p

EndsWith(s, p) == Len(p) <= Len(s) /\ SubSeq(s, Len(s) - Len(p) + 1, Len(s)) = p

\* a in b, for strings
IsSubstring(a, b) ==
  \E k \in 0..(Len(b) - Len(a)) : SubSeq(b, k + 1, k + Len(a)) = a

\* s.replace(pat, '', regex=False), pat not empty
RECURSIVE RemoveAll(_, _)
RemoveAll(s, pat) ==
  IF s = <<>> THEN <<>>
  ELSE IF StartsWith(s, pat) THEN RemoveAll(SubSeq(s, Len(pat) + 1, Len(s)), pat)
  ELSE <<Head(s)>> \o RemoveAll(Tail(s), pat)

\* a < b, the order sorted() puts strings in
RECURSIVE StrLess(_, _)
StrLess(a, b) ==
  IF b = <<>> THEN FALSE
  ELSE IF a = <<>> THEN TRUE
  ELSE IF Head(a) # Head(b) THEN Ord(Head(a)) < Ord(Head(b))
  ELSE StrLess(Tail(a), Tail(b))

\* sorted(lawyers)[0]
SortedFirst(S) == CHOOSE x \in S : \A y \in S \ {x} : StrLess(x, y)


(***************************************************************************)
(* Dicts: sequences of <<key, value>> pairs in insertion order.            *)
(***************************************************************************)
DictKeys(d) == {d[i][1] : i \in 1..Len(d)}

DictGet(d, k) == d[CHOOSE i \in 1..Len(d) : d[i][1] = k][2]

\* d[k] = v: a new key goes last, an old key keeps its place
DictPut(d, k, v) ==
  IF k \in DictKeys(d)
  THEN [i \in 1..Len(d) |-> IF d[i][1] = k THEN <<k, v>> ELSE d[i]]
  ELSE Append(d, <<k, v>>)

(***************************************************************************)
(* The state of search_law_firm_for_companies.                             *)
(***************************************************************************)
VARIABLES
  pc,               \* where the pipeline is
  results,          \* what search_paginated returned, as df
  df_filtered,      \* line 114-126
  df_unique,        \* line 132
  result_df,        \* the table being built
  error,            \* the exception that reached the caller, or None
  company_cik_map,  \* line 185-190
  futures,          \* futures[k]: the index label the k-th submitted task is for
  fstate,           \* fstate[k]: "queued", "running", "done" (future finished)
  fresult,          \* fresult[k]: what the k-th task returned, or "raise"
  collected,        \* the futures as_completed has yielded so far
  completed,        \* line 215-217
  progress,         \* the messages progress_callback has been called with
  before_loan,      \* history: result_df as the stock-loan step found it
  loan_failed,      \* history: the stock-loan step caught an exception
  table0            \* history: result_df as the attribution phase found it

pvars ==
  <<pc, results, df_filtered, df_unique, result_df, error, company_cik_map,
    futures, fstate, fresult, collected, completed, progress, before_loan,
    loan_failed, table0>>

(***************************************************************************)
(* get_most_recent_lawyer_for_company.                                     *)
(***************************************************************************)
VARIABLES
  lpc,                  \* where the call is: "call", "loop", "return"
  nfilings,             \* len(filings) after filings[:10]
  fi,                   \* the filing the loop reads next, 1 the most recent
  firm_to_lawyers_all,  \* the combined index
  lawyer_found,         \* the value returned
  extracted,            \* history: <<firm, lawyer>> pairs of the filings read without failure
  recent_named,         \* history: the target firm's lawyers in the most recent filing naming any
  failed_mid            \* history: a filing failed after lawyers had been accumulated

lvars ==
  <<lpc, nfilings, fi, firm_to_lawyers_all, lawyer_found, extracted, recent_named,
    failed_mid>>

\* the firm the search is for
FirmName == <<"D","a","y"," ","L","L","P">>

\* firm names extract_lawyers_by_regex finds in the filings
FilingFirms ==
  { <<"D","a","y"," ","L","L","P">>, <<"D","A","Y">>, <<"K","a","y">> }

\* lawyer names extract_lawyers_by_regex finds in the filings
LawyerNames == { <<"A","l">>, <<"B","o">> }

\* clean_firm_name of company_search: trims the name
CleanFirmName(s) == Strip(s)

\* the suffixes re.sub(r'\s+(llp|llc|p\.c\.|p\.a\.)$', '', ..., flags=re.IGNORECASE) removes
LegalSuffixes ==
  { <<"l","l","p">>, <<"l","l","c">>, <<"p",".","c",".">>, <<"p",".","a",".">> }

\* re.sub(r'\s+(llp|llc|p\.c\.|p\.a\.)$', '', s, flags=re.IGNORECASE).strip()
StripLegalSuffix(s) ==
  IF \E x \in LegalSuffixes :
       /\ EndsWith(Lower(s), x)
       /\ Len(s) > Len(x)
       /\ IsSpace(s[Len(s) - Len(x)])
  THEN LET x == CHOOSE y \in LegalSuffixes :
                  /\ EndsWith(Lower(s), y)
                  /\ Len(s) > Len(y)
                  /\ IsSpace(s[Len(s) - Len(y)])
       IN  Strip(RStrip(SubSeq(s, 1, Len(s) - Len(x))))
  ELSE Strip(s)

\* the three-way test of lines 64-74
FirmMatches(firm_name, firm) ==
  LET firm_normalized == Lower(CleanFirmName(firm_name))
      firm_base       == StripLegalSuffix(firm_normalized)
      firm_clean      == Lower(CleanFirmName(firm))
      firm_clean_base == StripLegalSuffix(firm_clean)
  IN  \/ IsSubstring(firm_base, firm_clean_base)
      \/ IsSubstring(firm_clean_base, firm_base)
      \/ firm_normalized = firm_clean

\* lines 56-59: merge one filing's firm_to_lawyers into the combined index
RECURSIVE MergeFiling(_, _)
MergeFiling(all, firm_to_lawyers) ==
  IF firm_to_lawyers = <<>> THEN all
  ELSE LET firm    == Head(firm_to_lawyers)[1]
           lawyers == Head(firm_to_lawyers)[2]
           seeded  == IF firm \in DictKeys(all) THEN all ELSE DictPut(all, firm, {})
       IN  MergeFiling(DictPut(seeded, firm, DictGet(seeded, firm) \cup lawyers),
                       Tail(firm_to_lawyers))

\* lines 67-79: the first matching firm with lawyers gives sorted(lawyers)[0]
RECURSIVE FindLawyer(_, _)
FindLawyer(all, firm_name) ==
  IF all = <<>> THEN None
  ELSE IF FirmMatches(firm_name, Head(all)[1]) /\ Head(all)[2] # {}
  THEN SortedFirst(Head(all)[2])
  ELSE FindLawyer(Tail(all), firm_name)

\* the dicts of at most n firms extract_lawyers_by_regex can return
RECURSIVE FilingDicts(_)
FilingDicts(n) ==
  IF n = 0 THEN {<<>>}
  ELSE LET shorter == FilingDicts(n - 1)
       IN  shorter \cup
           { Append(d, <<f, ls>>) :
               d \in {x \in shorter : Len(x) = n - 1},
               f \in FilingFirms, ls \in SUBSET LawyerNames }

\* firm_to_lawyers of one filing: at most MaxFirmsPerFiling firms, each once
FirmToLawyers ==
  { d \in FilingDicts(MaxFirmsPerFiling) :
      \A i, j \in 1..Len(d) : i # j => d[i][1] # d[j][1] }

\* what reading one filing comes to
FilingOutcomes ==
  {[kind |-> "raise", dict |-> <<>>], [kind |-> "notext", dict |-> <<>>]}
  \cup {[kind |-> "dict", dict |-> d] : d \in FirmToLawyers}

\* the pairs a filing's dict names
PairsOf(d) == UNION { {<<d[i][1], l>> : l \in d[i][2]} : i \in 1..Len(d) }

\* the firms of the filings that are the target firm
TargetFirms == {f \in FilingFirms : FirmMatches(FirmName, f)}

\* the target firm's lawyers in one filing's dict
TargetLawyers(d) ==
  UNION { d[i][2] : i \in {j \in 1..Len(d) : d[j][1] \in TargetFirms} }

LInit ==
  /\ lpc = "call"
  /\ nfilings = 0
  /\ fi = 1
  /\ firm_to_lawyers_all = <<>>
  /\ lawyer_found = None
  /\ extracted = {}
  /\ recent_named = {}
  /\ failed_mid = FALSE

\* lines 23-34: get_company_filings raises (-1), returns nothing, or returns
\* that many filings
GetFilings ==
  /\ UNCHANGED pvars
  /\ lpc = "call"
  /\ \E got \in (-1)..(RecentFilings + MaxExtraFilings) :
       IF got = -1 \/ got = 0
       THEN /\ lpc' = "return"
            /\ lawyer_found' = None
            /\ UNCHANGED <<nfilings, fi, firm_to_lawyers_all>>
       ELSE /\ lpc' = "loop"
            /\ nfilings' = IF got > RecentFilings THEN RecentFilings ELSE got
            /\ fi' = 1
            /\ firm_to_lawyers_all' = <<>>
            /\ UNCHANGED lawyer_found
  /\ UNCHANGED <<extracted, recent_named, failed_mid>>

\* the loop body with the try around the whole loop: a failure ends the loop
\* and drops what was accumulated
ProcessFilingAbort ==
  /\ UNCHANGED pvars
  /\ lpc = "loop"
  /\ fi <= nfilings
  /\ \E got \in FilingOutcomes :
       /\ IF got.kind = "raise"
          THEN /\ firm_to_lawyers_all' = <<>>
               /\ fi' = nfilings + 1
               /\ UNCHANGED <<extracted, recent_named>>
          ELSE IF got.kind = "notext"
          THEN /\ fi' = fi + 1
               /\ UNCHANGED <<firm_to_lawyers_all, extracted, recent_named>>
          ELSE /\ firm_to_lawyers_all' = MergeFiling(firm_to_lawyers_all, got.dict)
               /\ extracted' = extracted \cup PairsOf(got.dict)
               /\ recent_named' =
                    IF recent_named = {} THEN TargetLawyers(got.dict) ELSE recent_named
               /\ fi' = fi + 1
       /\ failed_mid' = (failed_mid \/ (got.kind = "raise" /\ extracted # {}))
  /\ UNCHANGED <<lpc, nfilings, lawyer_found>>

\* lines 36-61: one filing of the loop; the fetch or the extraction fails, the
\* text is empty, or the extractor returns a dict
ProcessFiling ==
  /\ UNCHANGED pvars
  /\ lpc = "loop"
  /\ fi <= nfilings
  /\ \E got \in FilingOutcomes :
       /\ IF got.kind \in {"raise", "notext"}
          THEN UNCHANGED <<firm_to_lawyers_all, extracted, recent_named>>
          ELSE /\ firm_to_lawyers_all' = MergeFiling(firm_to_lawyers_all, got.dict)
               /\ extracted' = extracted \cup PairsOf(got.dict)
               /\ recent_named' =
                    IF recent_named = {} THEN TargetLawyers(got.dict) ELSE recent_named
       /\ failed_mid' = (failed_mid \/ (got.kind = "raise" /\ extracted # {}))
  /\ fi' = fi + 1
  /\ UNCHANGED <<lpc, nfilings, lawyer_found>>

\* lines 63-79: after the loop, match the firm and return
MatchFirm ==
  /\ UNCHANGED pvars
  /\ lpc = "loop"
  /\ fi > nfilings
  /\ lawyer_found' = FindLawyer(firm_to_lawyers_all, FirmName)
  /\ lpc' = "return"
  /\ UNCHANGED <<nfilings, fi, firm_to_lawyers_all, extracted, recent_named,
                 failed_mid>>

LNext == GetFilings \/ ProcessFiling \/ MatchFirm

(***************************************************************************)
(* Properties of get_most_recent_lawyer_for_company.                       *)
(***************************************************************************)

\* C4: the lawyer returned is one the target firm names in the most recent
\* filing in which the firm appears with lawyers.
C4_MostRecentLawyer ==
  (lpc = "return" /\ lawyer_found # None) => lawyer_found \in recent_named

\* C9: a failed filing neither ends the loop nor drops what the other filings
\* gave: the combined index holds every lawyer of every filing read without
\* failure, under its firm, the call returns only after the last filing, and
\* it returns a lawyer when a filing read without failure names one for the
\* target firm.
C9_FailureKeepsIndex ==
  /\ \A p \in extracted :
       /\ p[1] \in DictKeys(firm_to_lawyers_all)
       /\ p[2] \in DictGet(firm_to_lawyers_all, p[1])
  /\ (lpc = "return" /\ nfilings > 0) => fi = nfilings + 1
  /\ (lpc = "return" /\ recent_named # {}) => lawyer_found # None

\* a call that returned a lawyer although a filing failed after the first
\* lawyers were found, and that read all 10 filings
C9_Witness ==
  /\ lpc = "return"
  /\ failed_mid
  /\ nfilings = RecentFilings
  /\ Cardinality(extracted) >= 2
  /\ lawyer_found # None

(***************************************************************************)
(* search_law_firm_for_companies: the data                                 *)
(***************************************************************************)
vars == <<lvars, pvars>>

\* the missing value of a left join's unmatched row
NaN == -1
\* fillna('Not Found')
NotFound == <<"N","o","t"," ","F","o","u","n","d">>
\* a future that holds an exception
Raised == <<"raise">>
\* no exception has reached the caller
NoError == "none"

SeqsUpTo(S, n) == UNION {[1..k -> S] : k \in 0..n}

\* df[mask]: the rows of df the boolean mask marks, in order, labels kept
SelectRows(df, mask) ==
  LET RECURSIVE Walk(_)
      Walk(i) == IF i > Len(df) THEN <<>>
                 ELSE (IF mask[i] THEN <<df[i]>> ELSE <<>>) \o Walk(i + 1)
  IN  Walk(1)

\* a fresh RangeIndex, as merge gives its result
ResetIndex(df) == [i \in 1..Len(df) |-> [df[i] EXCEPT !.idx = i - 1]]

RECURSIVE Flatten(_)
Flatten(ss) == IF ss = <<>> THEN <<>> ELSE Head(ss) \o Flatten(Tail(ss))

\* ---- the inputs ---------------------------------------------------------

US_EQUITY == <<" ","U","S"," ","E","q","u","i","t","y">>

\* company_name as the search returns it
RawCompanyNames ==
  { <<"A"," ","(","a","c",")">>,
    <<"A"," ","(","B","D",")">>,
    <<"B"," ","(","B","D"," ","U","S"," ","E","q","u","i","t","y",")">>,
    <<"C">> }

FilingDates ==
  { <<"2","0","2","3","-","0","1","-","0","1">>,
    <<"2","0","2","3","-","0","6","-","0","1">> }

LatestDate == <<"2","0","2","3","-","0","6","-","0","1">>

FilingTypes == { "S-1", "4" }

\* the cik the search returns with a company's filings; none for B
CikOf(company_name) ==
  IF Head(company_name) = "B" THEN <<>> ELSE <<DigitChar(Ord(Head(company_name)) % 10)>>

\* the filings the search can return: company A under either ticker on either
\* date, the other companies on one date, and one filing of a type the filter
\* drops
FilingRecords ==
  { r \in [company_name : RawCompanyNames, cik : {CikOf(n) : n \in RawCompanyNames},
           filing_date : FilingDates, filing_type : FilingTypes] :
      /\ r.cik = CikOf(r.company_name)
      /\ Head(r.company_name) # "A" => r.filing_date = LatestDate
      /\ r.filing_type = "4" => r.company_name = <<"C">> }

\* filter_important_filings of utils: the filing types the search keeps
ImportantTypes == { "S-1" }

FilterImportantFilings(df) ==
  SelectRows(df, [i \in 1..Len(df) |-> df[i].filing_type \in ImportantTypes])

\* extract_ticker_and_clean_name of utils: "Name (TICKER)" gives the name and
\* the ticker, a name without a ticker gives the name and ""
ExtractTickerAndCleanName(x) ==
  IF x # <<>> /\ x[Len(x)] = ")" /\ \E k \in 1..Len(x) : x[k] = "("
  THEN LET k == CHOOSE j \in 1..Len(x) :
                  x[j] = "(" /\ \A m \in (j + 1)..Len(x) : x[m] # "("
       IN  <<Strip(SubSeq(x, 1, k - 1)), SubSeq(x, k + 1, Len(x) - 1)>>
  ELSE <<Strip(x), <<>>>>

\* ---- dates --------------------------------------------------------------

RECURSIVE ParseInt(_)
ParseInt(s) ==
  IF s = <<>> THEN 0
  ELSE 10 * ParseInt(SubSeq(s, 1, Len(s) - 1)) + DigitVal(s[Len(s)])

\* n as w digits, zero padded
RECURSIVE FormatInt(_, _)
FormatInt(n, w) ==
  IF w = 0 THEN <<>> ELSE FormatInt(n \div 10, w - 1) \o <<DigitChar(n % 10)>>

\* pd.to_datetime of "YYYY-MM-DD": a number that orders as the dates do
ToDatetime(s) ==
  (ParseInt(SubSeq(s, 1, 4)) * 12 + (ParseInt(SubSeq(s, 6, 7)) - 1)) * 31
  + (ParseInt(SubSeq(s, 9, 10)) - 1)

\* .dt.strftime('%Y-%m-%d')
Strftime(t) ==
  FormatInt((t \div 31) \div 12, 4) \o <<"-">>
  \o FormatInt(((t \div 31) % 12) + 1, 2) \o <<"-">>
  \o FormatInt((t % 31) + 1, 2)

\* ---- lines 109-132 ------------------------------------------------------

\* pd.DataFrame(results): rows labelled 0..n-1
DataFrame(recs) ==
  [i \in 1..Len(recs) |->
     [idx |-> i - 1, company_name |-> recs[i].company_name, cik |-> recs[i].cik,
      filing_date |-> recs[i].filing_date, filing_type |-> recs[i].filing_type]]

\* lines 122-126: the clean_company_name and ticker columns, the parsed date
AddNameTickerDate(df) ==
  [i \in 1..Len(df) |->
     [idx |-> df[i].idx, company_name |-> df[i].company_name, cik |-> df[i].cik,
      filing_type |-> df[i].filing_type,
      clean_company_name |-> ExtractTickerAndCleanName(df[i].company_name)[1],
      ticker |-> ExtractTickerAndCleanName(df[i].company_name)[2],
      filing_date |-> ToDatetime(df[i].filing_date)]]

IndexPermutations(n) == {f \in [1..n -> 1..n] : \A i, j \in 1..n : f[i] = f[j] => i = j}

\* line 129: sort_values('filing_date', ascending=False) with the default
\* kind='quicksort', which is not stable: every order that is descending by
\* date is a result the sort can give
SortValues(df) ==
  { [i \in 1..Len(df) |-> df[f[i]]] : f \in
      { g \in IndexPermutations(Len(df)) :
          \A i \in 1..(Len(df) - 1) :
             df[g[i]].filing_date >= df[g[i + 1]].filing_date } }

\* drop_duplicates(subset=['clean_company_name'], keep='last')
DropDuplicatesKeepLast(df) ==
  LET Keep(i) == \A j \in (i + 1)..Len(df) :
                    df[j].clean_company_name # df[i].clean_company_name
      RECURSIVE Walk(_)
      Walk(i) == IF i > Len(df) THEN <<>>
                 ELSE (IF Keep(i) THEN <<df[i]>> ELSE <<>>) \o Walk(i + 1)
  IN  Walk(1)

\* line 132: drop_duplicates(subset=['clean_company_name'], keep='first')
DropDuplicates(df) ==
  LET Keep(i) == \A j \in 1..(i - 1) :
                    df[j].clean_company_name # df[i].clean_company_name
      RECURSIVE Walk(_)
      Walk(i) == IF i > Len(df) THEN <<>>
                 ELSE (IF Keep(i) THEN <<df[i]>> ELSE <<>>) \o Walk(i + 1)
  IN  Walk(1)

\* ---- lines 141-147 ------------------------------------------------------

\* .str.replace(' US Equity', '', regex=False).str.strip().str.upper()
CleanTicker(t) == Upper(Strip(RemoveAll(t, US_EQUITY)))

\* lines 141-147: the three columns renamed, blank tickers dropped, Ticker_Clean
SelectTickerRows(unique) ==
  LET named == [i \in 1..Len(unique) |->
                  [idx |-> unique[i].idx,
                   Company |-> unique[i].clean_company_name,
                   Ticker |-> unique[i].ticker,
                   Filing_Date |-> unique[i].filing_date]]
      kept == SelectRows(named, [i \in 1..Len(named) |-> named[i].Ticker # <<>>])
  IN  [i \in 1..Len(kept) |->
         [idx |-> kept[i].idx, Company |-> kept[i].Company,
          Ticker |-> kept[i].Ticker, Filing_Date |-> kept[i].Filing_Date,
          Ticker_Clean |-> CleanTicker(kept[i].Ticker)]]

\* ---- line 153: filter_and_enrich_tickers of stock_reference -------------

\* the static reference table, keyed by ticker, market cap in millions
ReferenceTable ==
  << [Ticker |-> <<"A","C">>, Market_Cap |-> 600, High_52wk |-> 12, Low_52wk |-> 8],
     [Ticker |-> <<"B","D">>, Market_Cap |-> 700, High_52wk |-> 30, Low_52wk |-> 20],
     [Ticker |-> <<"S","M">>, Market_Cap |-> 100, High_52wk |-> 3, Low_52wk |-> 1] >>

\* inner join on the cleaned ticker, then the market-cap floor
FilterAndEnrichTickers(df) ==
  LET Refs(r) == SelectRows(ReferenceTable,
                   [k \in 1..Len(ReferenceTable) |->
                      ReferenceTable[k].Ticker = r.Ticker_Clean])
      joined == Flatten([i \in 1..Len(df) |->
                  [j \in 1..Len(Refs(df[i])) |->
                     [idx |-> 0, Company |-> df[i].Company, Ticker |-> df[i].Ticker,
                      Filing_Date |-> df[i].Filing_Date,
                      Ticker_Clean |-> df[i].Ticker_Clean,
                      Market_Cap |-> Refs(df[i])[j].Market_Cap,
                      High_52wk |-> Refs(df[i])[j].High_52wk,
                      Low_52wk |-> Refs(df[i])[j].Low_52wk]]])
      floored == SelectRows(joined,
                   [k \in 1..Len(joined) |-> joined[k].Market_Cap > MarketCapFloor])
  IN  IF joined = <<>> THEN [error |-> "NoMatchError", df |-> <<>>]
      ELSE IF floored = <<>> THEN [error |-> "NoQualifyingCompanyError", df |-> <<>>]
      ELSE [error |-> NoError, df |-> ResetIndex(floored)]

\* ---- lines 161-175: the stock-loan step --------------------------------

LoanColumns == {"Rebate_Rate", "Fee_Rate", "Available"}

\* rows fetch_shortstock_data can return
FeedRows ==
  { [Symbol |-> <<"A","C">>, Rebate_Rate |-> 1, Fee_Rate |-> 2, Available |-> 100],
    [Symbol |-> <<" ","a","c">>, Rebate_Rate |-> 3, Fee_Rate |-> 4, Available |-> 200],
    [Symbol |-> <<"Z","Z">>, Rebate_Rate |-> 5, Fee_Rate |-> 6, Available |-> 300] }

\* the feeds of at most MaxFeed of these rows, in any order, no row twice
Feeds ==
  { f \in SeqsUpTo(FeedRows, MaxFeed) : \A i, j \in DOMAIN f : f[i] = f[j] => i = j }

\* what fetch_shortstock_data comes to: it raises, it returns a frame without
\* the Symbol column (line 164 raises), a frame without the loan columns (line
\* 167 raises), or a well-formed frame
FeedOutcomes ==
  { [kind |-> k, rows |-> <<>>] : k \in {"raise", "nosymbol", "nocolumns"} }
  \cup { [kind |-> "ok", rows |-> f] : f \in Feeds }

\* line 164: Symbol_Clean
SymbolClean(sym) == Upper(Strip(sym))

\* lines 166-172: merge(how='left') on Ticker_Clean = Symbol_Clean, then the
\* Symbol_Clean column dropped
LeftMerge(df, feed) ==
  LET Hits(r) == SelectRows(feed,
                   [k \in 1..Len(feed) |-> SymbolClean(feed[k].Symbol) = r.Ticker_Clean])
      Out(r) ==
        IF Hits(r) = <<>>
        THEN << r @@ [Rebate_Rate |-> NaN, Fee_Rate |-> NaN, Available |-> NaN] >>
        ELSE [j \in 1..Len(Hits(r)) |->
                r @@ [Rebate_Rate |-> Hits(r)[j].Rebate_Rate,
                      Fee_Rate |-> Hits(r)[j].Fee_Rate,
                      Available |-> Hits(r)[j].Available]]
  IN  ResetIndex(Flatten([i \in 1..Len(df) |-> Out(df[i])]))

\* the step with the loan columns created before the feed is fetched
StockLoanStepKeepsColumns(df, feed) ==
  IF feed.kind # "ok"
  THEN [df |-> LeftMerge(df, <<>>), failed |-> TRUE]
  ELSE [df |-> LeftMerge(df, feed.rows), failed |-> FALSE]

\* lines 162-175: result_df is assigned only when the merge has succeeded
StockLoanStep(df, feed) ==
  IF feed.kind # "ok"
  THEN [df |-> df, failed |-> TRUE]
  ELSE [df |-> LeftMerge(df, feed.rows), failed |-> FALSE]

\* ---- lines 177-213 ------------------------------------------------------

\* str.zfill(width)
RECURSIVE ZFill(_, _)
ZFill(s, w) == IF Len(s) >= w THEN s ELSE ZFill(<<"0">> \o s, w)

\* lines 185-190
RECURSIVE BuildCikMap(_)
BuildCikMap(unique) ==
  IF unique = <<>> THEN <<>>
  ELSE LET row  == unique[Len(unique)]
           rest == BuildCikMap(SubSeq(unique, 1, Len(unique) - 1))
       IN  IF row.clean_company_name # <<>> /\ row.cik # <<>>
           THEN DictPut(rest, row.clean_company_name, ZFill(row.cik, CikWidth))
           ELSE rest

\* lines 178 and 193: the Bloomberg ticker and the empty lawyer column
PrepareTable(df) ==
  [i \in 1..Len(df) |->
     [df[i] EXCEPT !.Ticker = df[i].Ticker_Clean \o US_EQUITY]
     @@ [Most_Recent_Lawyer |-> None]]

\* the lawyer the company's filings name for the firm
CounselOf(company) ==
  IF Ord(company[1]) % 2 = 0 THEN <<"A","l">> ELSE <<"B","o">>

\* lines 196-208: extract_lawyer_for_row returns None without a call when the
\* company has no CIK; else what get_most_recent_lawyer_for_company returns, a
\* lawyer or None; or it raises
RowOutcomes(row, cik_map) ==
  IF row.Company \notin DictKeys(cik_map)
  THEN {None}
  ELSE {None, CounselOf(row.Company), Raised}

\* the row the task was submitted for: its place in the table
RowOf(df, label) == CHOOSE i \in 1..Len(df) : df[i].idx = label

\* result_df.at[label, 'Most Recent Lawyer'] = value
AtSetLawyer(df, label, value) ==
  [i \in 1..Len(df) |->
     IF df[i].idx = label THEN [df[i] EXCEPT !.Most_Recent_Lawyer = value]
     ELSE df[i]]

\* a pool that starts a thread for every task submitted
WorkerFreeUnbounded == TRUE

\* line 211: one of the pool's max_workers threads is free
WorkerFree == Cardinality({k \in DOMAIN fstate : fstate[k] = "running"}) < MaxWorkers

\* ---- lines 229-249 ------------------------------------------------------

\* lines 236-246
FinalColumns(row) ==
  {"Company", "Ticker", "Most_Recent_Lawyer", "Market_Cap"}
  \cup ({"High_52wk"} \cap DOMAIN row)
  \cup ({"Low_52wk"} \cap DOMAIN row)
  \cup (IF "Rebate_Rate" \in DOMAIN row THEN LoanColumns ELSE {})
  \cup {"Filing_Date"}

\* lines 230-249: fillna, the date formatted, the final columns
AssembleRow(row) ==
  [c \in FinalColumns(row) \cup {"idx"} |->
     IF c = "Most_Recent_Lawyer"
     THEN (IF row.Most_Recent_Lawyer = None THEN NotFound ELSE row.Most_Recent_Lawyer)
     ELSE IF c = "Filing_Date" THEN Strftime(row.Filing_Date)
     ELSE row[c]]

(***************************************************************************)
(* search_law_firm_for_companies: the steps                                *)
(***************************************************************************)
NoFutures ==
  /\ futures = <<>>
  /\ fstate = <<>>
  /\ fresult = <<>>
  /\ collected = {}
  /\ completed = 0

PInit ==
  /\ pc = "search"
  /\ results = <<>>
  /\ df_filtered = <<>>
  /\ df_unique = <<>>
  /\ result_df = <<>>
  /\ error = NoError
  /\ company_cik_map = <<>>
  /\ NoFutures
  /\ progress = <<>>
  /\ before_loan = <<>>
  /\ loan_failed = FALSE
  /\ table0 = <<>>

\* raise ValueError(what)
Raise(what) ==
  /\ pc' = "raised"
  /\ error' = what

\* lines 100-112: the search, the error when it finds nothing, df
Search ==
  /\ UNCHANGED lvars
  /\ pc = "search"
  /\ \E found \in SeqsUpTo(FilingRecords, MaxResults) :
       IF found = <<>>
       THEN /\ Raise("No results found for law firm")
            /\ progress' = Append(progress, <<"Searching for companies">>)
            /\ UNCHANGED results
       ELSE /\ results' = DataFrame(found)
            /\ progress' = progress \o << <<"Searching for companies">>,
                                          <<"Total filings found", Len(found)>> >>
            /\ pc' = "filter"
            /\ UNCHANGED error
  /\ UNCHANGED <<df_filtered, df_unique, result_df, company_cik_map, futures,
                 fstate, fresult, collected, completed, before_loan,
                 loan_failed, table0>>

\* lines 114-126: the relevant filing types, the error when none is left, the
\* name, ticker and date columns
FilterFilings ==
  /\ UNCHANGED lvars
  /\ pc = "filter"
  /\ LET kept == FilterImportantFilings(results)
     IN  /\ progress' = Append(progress,
                          <<"After filtering to relevant filing types", Len(kept)>>)
         /\ IF kept = <<>>
            THEN /\ Raise("No relevant filings found for law firm")
                 /\ df_filtered' = kept
            ELSE /\ df_filtered' = AddNameTickerDate(kept)
                 /\ pc' = "dedup"
                 /\ UNCHANGED error
  /\ UNCHANGED <<results, df_unique, result_df, company_cik_map, futures, fstate,
                 fresult, collected, completed, before_loan, loan_failed,
                 table0>>

\* lines 129-135: sort by date, newest first, and keep each company's first row
Deduplicate ==
  /\ UNCHANGED lvars
  /\ pc = "dedup"
  /\ \E df_sorted \in SortValues(df_filtered) :
       /\ df_unique' = DropDuplicates(df_sorted)
       /\ progress' = Append(progress,
                        <<"Unique companies", Len(DropDuplicates(df_sorted))>>)
  /\ pc' = "select"
  /\ UNCHANGED <<results, df_filtered, result_df, error, company_cik_map,
                 futures, fstate, fresult, collected, completed, before_loan,
                 loan_failed, table0>>

\* lines 141-150: the table of companies with a ticker
SelectTickers ==
  /\ UNCHANGED lvars
  /\ pc = "select"
  /\ result_df' = SelectTickerRows(df_unique)
  /\ progress' = Append(progress, <<"Filtering to reference tickers">>)
  /\ pc' = "enrich"
  /\ UNCHANGED <<results, df_filtered, df_unique, error, company_cik_map,
                 futures, fstate, fresult, collected, completed, before_loan,
                 loan_failed, table0>>

\* lines 153-159: the reference join, and the error when no company is left
EnrichTickers ==
  /\ UNCHANGED lvars
  /\ pc = "enrich"
  /\ LET got == FilterAndEnrichTickers(result_df)
     IN  IF got.error # NoError
         THEN /\ Raise(got.error)
              /\ UNCHANGED <<result_df, progress>>
         ELSE IF got.df = <<>>
         THEN /\ Raise("No companies found with tickers in stock reference file")
              /\ result_df' = got.df
              /\ UNCHANGED progress
         ELSE /\ result_df' = got.df
              /\ progress' = Append(progress, <<"Adding stock loan availability data">>)
              /\ pc' = "loan"
              /\ UNCHANGED error
  /\ UNCHANGED <<results, df_filtered, df_unique, company_cik_map, futures,
                 fstate, fresult, collected, completed, before_loan,
                 loan_failed, table0>>

\* lines 161-175: the stock-loan feed, merged on or skipped with a note
StockLoan ==
  /\ UNCHANGED lvars
  /\ pc = "loan"
  /\ \E feed \in FeedOutcomes :
       LET got == StockLoanStep(result_df, feed)
       IN  /\ result_df' = got.df
           /\ loan_failed' = got.failed
           /\ progress' = IF got.failed
                          THEN Append(progress, <<"Note: Could not fetch stock loan data">>)
                          ELSE progress
  /\ before_loan' = result_df
  /\ pc' = "prepare"
  /\ UNCHANGED <<results, df_filtered, df_unique, error, company_cik_map,
                 futures, fstate, fresult, collected, completed, table0>>

\* lines 177-211: the ticker suffix, the CIK map, the lawyer column, and the
\* pool, with no task in it yet
PrepareAttribution ==
  /\ UNCHANGED lvars
  /\ pc = "prepare"
  /\ result_df' = PrepareTable(result_df)
  /\ progress' = Append(progress, <<"Extracting most recent lawyer for each company">>)
  /\ company_cik_map' = BuildCikMap(df_unique)
  /\ table0' = PrepareTable(result_df)
  /\ pc' = IF result_df = <<>> THEN "attribution" ELSE "submitting"
  /\ UNCHANGED <<results, df_filtered, df_unique, error, futures, fstate,
                 fresult, collected, completed, before_loan, loan_failed>>

\* lines 212-213, one turn of the comprehension: the task of the next row is
\* submitted, while the workers run the tasks submitted before it; after the
\* last row the as_completed loop begins
SubmitTask ==
  /\ UNCHANGED lvars
  /\ pc = "submitting"
  /\ Len(futures) < Len(result_df)
  /\ futures' = Append(futures, result_df[Len(futures) + 1].idx)
  /\ fstate' = Append(fstate, "queued")
  /\ fresult' = Append(fresult, None)
  /\ pc' = IF Len(futures) + 1 = Len(result_df) THEN "attribution" ELSE pc
  /\ UNCHANGED <<results, df_filtered, df_unique, result_df, error,
                 company_cik_map, collected, completed, progress, before_loan,
                 loan_failed, table0>>

\* a worker of the pool takes the task at the head of the queue
TaskStart(k) ==
  /\ UNCHANGED lvars
  /\ pc \in {"submitting", "attribution"}
  /\ k \in DOMAIN fstate
  /\ fstate[k] = "queued"
  /\ \A j \in 1..(k - 1) : fstate[j] # "queued"
  /\ WorkerFree
  /\ fstate' = [fstate EXCEPT ![k] = "running"]
  /\ UNCHANGED <<pc, results, df_filtered, df_unique, result_df, error,
                 company_cik_map, futures, fresult, collected, completed,
                 progress, before_loan, loan_failed, table0>>

\* lines 196-208: extract_lawyer_for_row ends, its future holds what it
\* returned or raised
TaskFinish(k) ==
  /\ UNCHANGED lvars
  /\ pc \in {"submitting", "attribution"}
  /\ k \in DOMAIN fstate
  /\ fstate[k] = "running"
  /\ \E r \in RowOutcomes(result_df[RowOf(result_df, futures[k])], company_cik_map) :
       fresult' = [fresult EXCEPT ![k] = r]
  /\ fstate' = [fstate EXCEPT ![k] = "done"]
  /\ UNCHANGED <<pc, results, df_filtered, df_unique, result_df, error,
                 company_cik_map, futures, collected, completed, progress,
                 before_loan, loan_failed, table0>>

\* lines 217-219: the count of futures yielded, reported at every tenth
CountCompleted ==
  /\ completed' = completed + 1
  /\ progress' = IF (completed + 1) % ProgressEvery = 0
                 THEN Append(progress,
                        <<"Lawyer extraction", completed + 1, Len(result_df)>>)
                 ELSE progress

\* the loop body without its try: future.result() re-raises in the caller
CollectNoCatch(k) ==
  /\ UNCHANGED lvars
  /\ pc = "attribution"
  /\ k \in DOMAIN fstate
  /\ fstate[k] = "done"
  /\ k \notin collected
  /\ CountCompleted
  /\ collected' = collected \cup {k}
  /\ IF fresult[k] = Raised
     THEN /\ Raise("task exception")
          /\ UNCHANGED result_df
     ELSE /\ result_df' = IF fresult[k] # None
                          THEN AtSetLawyer(result_df, futures[k], fresult[k])
                          ELSE result_df
          /\ UNCHANGED <<pc, error>>
  /\ UNCHANGED <<results, df_filtered, df_unique, company_cik_map, futures,
                 fstate, fresult, before_loan, loan_failed, table0>>

\* the loop body writing to the row numbered by the completion count
CollectByCount(k) ==
  /\ UNCHANGED lvars
  /\ pc = "attribution"
  /\ k \in DOMAIN fstate
  /\ fstate[k] = "done"
  /\ k \notin collected
  /\ CountCompleted
  /\ collected' = collected \cup {k}
  /\ result_df' = IF fresult[k] \notin {Raised, None}
                  THEN AtSetLawyer(result_df, completed, fresult[k])
                  ELSE result_df
  /\ UNCHANGED <<pc, results, df_filtered, df_unique, error, company_cik_map,
                 futures, fstate, fresult, before_loan, loan_failed, table0>>

\* lines 216-227: as_completed yields a finished future; its lawyer, if it
\* returned one, is written to its row; an exception is passed over
Collect(k) ==
  /\ UNCHANGED lvars
  /\ pc = "attribution"
  /\ k \in DOMAIN fstate
  /\ fstate[k] = "done"
  /\ k \notin collected
  /\ CountCompleted
  /\ collected' = collected \cup {k}
  /\ result_df' = IF fresult[k] \notin {Raised, None}
                  THEN AtSetLawyer(result_df, futures[k], fresult[k])
                  ELSE result_df
  /\ UNCHANGED <<pc, results, df_filtered, df_unique, error, company_cik_map,
                 futures, fstate, fresult, before_loan, loan_failed, table0>>

\* lines 229-254: every future has been yielded; the table is finished and
\* returned
Assemble ==
  /\ UNCHANGED lvars
  /\ pc = "attribution"
  /\ collected = DOMAIN fstate
  /\ result_df' = [i \in 1..Len(result_df) |-> AssembleRow(result_df[i])]
  /\ progress' = Append(progress, <<"Search complete", Len(result_df)>>)
  /\ pc' = "done"
  /\ UNCHANGED <<results, df_filtered, df_unique, error, company_cik_map,
                 futures, fstate, fresult, collected, completed, before_loan,
                 loan_failed, table0>>

PNext ==
  \/ Search
  \/ FilterFilings
  \/ Deduplicate
  \/ SelectTickers
  \/ EnrichTickers
  \/ StockLoan
  \/ PrepareAttribution
  \/ SubmitTask
  \/ \E k \in DOMAIN fstate : TaskStart(k)
  \/ \E k \in DOMAIN fstate : TaskFinish(k)
  \/ \E k \in DOMAIN fstate : Collect(k)
  \/ Assemble

Init == PInit /\ LInit

Next == PNext

Spec == Init /\ [][Next]_vars

(***************************************************************************)
(* The attribution phase on its own: the pipeline from line 177, on a      *)
(* table of up to MaxRows companies.                                       *)
(***************************************************************************)
\* what the search returned: one filing for each of n companies, the first of
\* them without a cik
AttributionFilings(n) ==
  [i \in 1..n |->
     [company_name |-> <<UpperAlpha[i], " ", "(", LowerAlpha[i], "x", ")">>,
      cik |-> IF i = 1 THEN <<>> ELSE <<"7">>,
      filing_date |-> <<"2","0","2","3","-","0","6","-","0","1">>,
      filing_type |-> "S-1"]]

\* lines 109-132 on these filings, in the order the search returned them
AttributionUnique(n) ==
  DropDuplicates(AddNameTickerDate(FilterImportantFilings(
    DataFrame(AttributionFilings(n)))))

\* lines 141-153: what the reference join returns for a reference file that
\* lists every one of these tickers
EnrichedTable(n) ==
  LET t == SelectTickerRows(AttributionUnique(n))
  IN  ResetIndex([i \in 1..Len(t) |->
                    t[i] @@ [Market_Cap |-> 600, High_52wk |-> 12, Low_52wk |-> 8]])

\* the state at line 177 after the stock-loan feed has failed
AInit ==
  /\ pc = "prepare"
  /\ error = NoError
  /\ loan_failed = TRUE
  /\ \E n \in 1..MaxRows :
       /\ results = DataFrame(AttributionFilings(n))
       /\ df_filtered = AddNameTickerDate(FilterImportantFilings(results))
       /\ df_unique = AttributionUnique(n)
       /\ before_loan = EnrichedTable(n)
       /\ result_df = EnrichedTable(n)
       /\ progress = << <<"Searching for companies">>,
                        <<"Total filings found", n>>,
                        <<"After filtering to relevant filing types", n>>,
                        <<"Unique companies", n>>,
                        <<"Filtering to reference tickers">>,
                        <<"Adding stock loan availability data">>,
                        <<"Note: Could not fetch stock loan data">> >>
  /\ company_cik_map = <<>>
  /\ NoFutures
  /\ table0 = <<>>

ANext ==
  \/ PrepareAttribution
  \/ SubmitTask
  \/ \E k \in DOMAIN fstate : TaskStart(k)
  \/ \E k \in DOMAIN fstate : TaskFinish(k)
  \/ \E k \in DOMAIN fstate : Collect(k)
  \/ Assemble

InitAttribution == AInit /\ LInit

SpecAttribution == InitAttribution /\ [][ANext]_vars

(***************************************************************************)
(* One call of get_most_recent_lawyer_for_company on its own.              *)
(***************************************************************************)
InitLawyer == LInit /\ PInit

SpecLawyer == InitLawyer /\ [][LNext]_vars

(***************************************************************************)
(* Properties of search_law_firm_for_companies.                            *)
(***************************************************************************)
Running == {k \in DOMAIN fstate : fstate[k] = "running"}

\* the task submitted for the row labelled label
TaskOf(label) == CHOOSE k \in DOMAIN futures : futures[k] = label

\* the tasks of the row labelled label that as_completed has yielded
Yielded(label) == {k \in collected : futures[k] = label}

\* the pipeline is at or past the submission of the tasks
InAttribution == pc \in {"submitting", "attribution", "done"}

\* what fillna leaves of a task's result
Filled(r) == IF r \in {Raised, None} THEN NotFound ELSE r

\* C1: after the deduplication no two rows have the same clean company name,
\* and each row is an input record whose filing_date is the latest among the
\* input records of its company.
C1_DedupKeepsLatest ==
  pc = "select" =>
    /\ \A i, j \in 1..Len(df_unique) :
         df_unique[i].clean_company_name = df_unique[j].clean_company_name => i = j
    /\ \A i \in 1..Len(df_unique) :
         /\ \E j \in 1..Len(df_filtered) : df_filtered[j] = df_unique[i]
         /\ \A j \in 1..Len(df_filtered) :
              df_filtered[j].clean_company_name = df_unique[i].clean_company_name
                => df_unique[i].filing_date >= df_filtered[j].filing_date

\* two filings of one company, the older one first, deduplicated to the newer
C1_Witness ==
  /\ pc = "select"
  /\ Len(df_filtered) = 2
  /\ Len(df_unique) = 1
  /\ \E i, j \in 1..Len(df_filtered) :
       /\ i < j
       /\ df_filtered[i].clean_company_name = df_filtered[j].clean_company_name
       /\ df_filtered[i].filing_date < df_filtered[j].filing_date

\* C5: of the records of one company with one filing_date, the deduplication
\* keeps none but the earliest of the input order.
C5_TieKeepsEarliest ==
  pc = "select" =>
    \A i \in 1..Len(df_unique) : \A j \in 1..Len(df_filtered) :
      ( /\ df_filtered[j].clean_company_name = df_unique[i].clean_company_name
        /\ df_filtered[j].filing_date = df_unique[i].filing_date )
        => df_unique[i].idx <= df_filtered[j].idx

\* C6: the pipeline has failed with the no-results error before the reference
\* join whenever no company is left after the blank tickers are dropped: the
\* join is never called on an empty table.
C6_EmptyAfterBlankTickersRaises ==
  pc = "enrich" => result_df # <<>>

\* C10: the table returned has at most one row per company name.
C10_OneRowPerCompany ==
  pc = "done" =>
    \A i, j \in 1..Len(result_df) :
      result_df[i].Company = result_df[j].Company => i = j

\* C3: when the stock-loan step fails, no exception reaches the caller, the
\* table leaves the step as it entered it, it keeps its rows and their
\* company, market-cap and filing-date values to the end, and no loan column
\* is in it.
C3_LoanFailureSkipsStep ==
  loan_failed =>
    /\ pc # "raised"
    /\ error = NoError
    /\ pc = "prepare" => result_df = before_loan
    /\ InAttribution =>
         /\ Len(result_df) = Len(before_loan)
         /\ \A i \in 1..Len(result_df) :
              /\ result_df[i].Company = before_loan[i].Company
              /\ result_df[i].Market_Cap = before_loan[i].Market_Cap
              /\ result_df[i].High_52wk = before_loan[i].High_52wk
              /\ result_df[i].Low_52wk = before_loan[i].Low_52wk
              /\ result_df[i].Filing_Date =
                   IF pc = "done" THEN Strftime(before_loan[i].Filing_Date)
                   ELSE before_loan[i].Filing_Date
    /\ \A i \in 1..Len(result_df) : DOMAIN result_df[i] \cap LoanColumns = {}

\* a table of two companies returned after the feed failed
C3_Witness ==
  /\ pc = "done"
  /\ loan_failed
  /\ Len(result_df) = 2
  /\ Len(before_loan) = 2

\* C7: at most 5 attribution tasks run at the same time.
C7_AtMostFiveRunning == Cardinality(Running) <= MaxWorkers

\* five tasks running while a sixth waits in the queue
C7_Witness ==
  /\ pc = "attribution"
  /\ Cardinality(Running) = MaxWorkers
  /\ \E k \in DOMAIN fstate : fstate[k] = "queued"

\* C2: whichever tasks raise, no exception reaches the caller, the table keeps
\* its number of rows, a row whose task raised ends 'Not Found' and a row
\* whose task returned a lawyer ends with that lawyer.
C2_TaskFailuresAbsorbed ==
  /\ pc # "raised"
  /\ error = NoError
  /\ InAttribution => Len(result_df) = Len(table0)
  /\ pc = "done" =>
       \A k \in DOMAIN futures :
         LET row == result_df[RowOf(table0, futures[k])]
         IN  /\ fresult[k] = Raised => row.Most_Recent_Lawyer = NotFound
             /\ fresult[k] \notin {Raised, None} => row.Most_Recent_Lawyer = fresult[k]

\* a finished run in which one task raised and another returned a lawyer
C2_Witness ==
  /\ pc = "done"
  /\ \E j, k \in DOMAIN futures :
       /\ fresult[j] = Raised
       /\ fresult[k] \notin {Raised, None}
       /\ result_df[RowOf(table0, futures[j])].Most_Recent_Lawyer = NotFound

\* C8: no two tasks are for the same row, the k-th task submitted is for the
\* k-th row, the rows keep their order, and a row's lawyer is what its own
\* task returned, whatever the order in which the tasks are submitted, run,
\* complete and are collected: the table returned is the table the phase
\* started on with each row's lawyer set from its own task's result.
C8_OwnRowOwnResult ==
  /\ \A j, k \in DOMAIN futures : futures[j] = futures[k] => j = k
  /\ InAttribution =>
       /\ Len(result_df) = Len(table0)
       /\ Len(futures) <= Len(table0)
       /\ pc # "submitting" => Len(futures) = Len(table0)
       /\ \A k \in DOMAIN futures : futures[k] = table0[k].idx
       /\ \A i \in 1..Len(result_df) :
            /\ result_df[i].idx = table0[i].idx
            /\ result_df[i].Company = table0[i].Company
            /\ result_df[i].Most_Recent_Lawyer =
                 IF pc = "done" THEN Filled(fresult[TaskOf(table0[i].idx)])
                 ELSE IF \E k \in Yielded(table0[i].idx) : fresult[k] # Raised
                 THEN fresult[TaskOf(table0[i].idx)]
                 ELSE None
  /\ pc = "done" =>
       result_df =
         [i \in 1..Len(table0) |->
            AssembleRow([table0[i] EXCEPT !.Most_Recent_Lawyer =
                           IF fresult[TaskOf(table0[i].idx)] = Raised THEN None
                           ELSE fresult[TaskOf(table0[i].idx)]])]

\* a later task collected before an earlier one, its lawyer in its own row,
\* while two rows with other lawyers to come are still open
C8_Witness ==
  /\ pc = "attribution"
  /\ \E j, k \in DOMAIN futures :
       /\ j < k
       /\ k \in collected
       /\ j \notin collected
       /\ fstate[j] = "done"
       /\ fresult[j] \notin {Raised, None}
       /\ fresult[k] \notin {Raised, None}
       /\ fresult[j] # fresult[k]
       /\ result_df[RowOf(table0, futures[k])].Most_Recent_Lawyer = fresult[k]

=============================================================================
